---- MODULE Spec2Model ----
(***************************************************************************)
(* State-machine model of face_feature_extractor.py: the enrollment        *)
(* handler (POST /process-images), the comparison handler                  *)
(* (/extract-features), the signature files face_encodings/<id>.npy, the   *)
(* image archive student_images/<id>_<i>.jpg and the temporary files of    *)
(* extract_face_features.                                                  *)
(***************************************************************************)
EXTENDS Integers, Sequences, FiniteSets, TLC

\* Largest number of images in one enrollment request.
MaxImages == 2

\* Number of names the temporary directory can hold.
MaxTmp == 3

\* Largest number of images in an enrollment request of the concurrent
\* specification.
MaxConcImages == 1

\* Server threads (app.run serves each request on a thread of its own).
Workers == {"w1", "w2"}

\* The thread that serves requests when they arrive one at a time.
SeqWorkers == {"w1"}

\* Person identifiers (student_id) and the value of an absent student_id.
Ids == {"s1", "s2"}
NoId == "none"

\* Embeddings the face model returns (face_recognition.face_encodings).
Embs == {<<0, 0>>, <<3, 4>>}

\* ------------------------------------------------------------------------
\* Arithmetic of np.mean and face_distance, on exact fractions <<num, den>>.

RECURSIVE GCD(_, _)
GCD(a, b) == IF b = 0 THEN a ELSE GCD(b, a % b)

Frac(n, d) == LET g == GCD(n, d) IN <<n \div g, d \div g>>

RECURSIVE SumAt(_, _, _)
SumAt(encs, k, j) == IF j = 0 THEN 0 ELSE encs[j][k] + SumAt(encs, k, j - 1)

\* The value np.mean gives for an empty list.
NaN == <<"nan">>

\* np.mean(face_encodings, axis=0): the element-wise mean.
Mean(encs) ==
    IF encs = <<>> THEN NaN
    ELSE [k \in 1..Len(encs[1]) |-> Frac(SumAt(encs, k, Len(encs)), Len(encs))]

RECURSIVE ISqrtFrom(_, _)
ISqrtFrom(n, r) == IF (r + 1) * (r + 1) > n THEN r ELSE ISqrtFrom(n, r + 1)

RECURSIVE SumSq(_, _, _)
SumSq(a, b, k) ==
    IF k = 0 THEN 0 ELSE (a[k] - b[k]) * (a[k] - b[k]) + SumSq(a, b, k - 1)

\* face_recognition.face_distance([a], b)[0]: the Euclidean distance.
FaceDistance(a, b) == ISqrtFrom(SumSq(a, b, Len(a)), 0)

\* ------------------------------------------------------------------------
\* Images, as the face model sees them.

Face(e) == [kind |-> "face", emb |-> e]
NoFace == [kind |-> "noface", emb |-> <<>>]
\* Bytes that do not decode: base64/cv2 (enrollment) or load_image_file raise.
BadImage == [kind |-> "bad", emb |-> <<>>]
\* Face located but face_encodings returns an empty list.
NoEncoding == [kind |-> "noenc", emb |-> <<>>]

EnrollImages == {Face(e) : e \in Embs} \cup {NoFace, BadImage}
UploadImages == {Face(e) : e \in Embs} \cup {NoFace, NoEncoding, BadImage}

\* ------------------------------------------------------------------------
\* Files.

\* A signature file: whether it exists, its header cell and its data cell.
\* hdr is "none" (the file is shorter), "ok" (a written header) or "hole"
\* (zero bytes left by a data write past the end of a truncated file).
NoFile == [exists |-> FALSE, hdr |-> "none", data |-> <<>>]
EmptyFile == [exists |-> TRUE, hdr |-> "none", data |-> <<>>]
Complete(v) == [exists |-> TRUE, hdr |-> "ok", data |-> v]
IsComplete(f) == f.exists /\ f.hdr = "ok" /\ f.data # <<>>

\* open(file, "wb") inside np.save: creates or truncates.
OpenTruncate(f) == EmptyFile

\* The header write of np.save, at offset 0 of this descriptor.
WriteHeader(f) == [f EXCEPT !.exists = TRUE, !.hdr = "ok"]

\* The array write of np.save, at the descriptor's offset after the header.
WriteData(f, v) ==
    [f EXCEPT !.exists = TRUE,
              !.hdr = IF f.hdr = "none" THEN "hole" ELSE f.hdr,
              !.data = v]

\* f'face_encodings/{student_id}.npy' : the file a student_id names.
EncodingPathFixed(sid) == "s1"
EncodingPath(sid) == sid

\* `for i, image_data in enumerate(images)` ... save_student_image(.., i):
\* the index an archived image is filed under. i counts from 0.
ArchiveIndexAmongUsable(i, encs) == Len(encs) - 1
ArchiveIndex(i, encs) == i

\* The loop body's effect on face_encodings: append on a detected face,
\* `continue` on no face, `except ... continue` on an error.
NextEncodingsNoSkip(encs, img) ==
    IF img.kind = "face" THEN Append(encs, img.emb) ELSE Append(encs, <<0, 0>>)
NextEncodings(encs, img) ==
    IF img.kind = "face" THEN Append(encs, img.emb) ELSE encs

\* `if not face_encodings:` after the loop.
NoEncodingsNever(encs) == FALSE
NoEncodings(encs) == encs = <<>>

\* ------------------------------------------------------------------------
\* Requests and responses.

NoFeatures == [ok |-> FALSE, enc |-> <<>>]
Features(e) == [ok |-> TRUE, enc |-> e]

\* A request. For /process-images: hasData (a JSON body), n = len(images),
\* images = the images the loop has read so far, sid = student_id, meta =
\* name, roll_number and class are all given. For /extract-features: has1,
\* has2 = the files are in request.files, img1, img2 = the uploads.
IdleReq ==
    [endpoint |-> "none", method |-> "none", hasData |-> FALSE, n |-> 0,
     images |-> <<>>, sid |-> NoId, meta |-> FALSE, has1 |-> FALSE,
     has2 |-> FALSE, img1 |-> NoFace, img2 |-> NoFace]

EnrollReq(d, len, s, m) ==
    [IdleReq EXCEPT !.endpoint = "enroll", !.method = "POST", !.hasData = d,
                    !.n = len, !.sid = s, !.meta = m]

\* Bodies of POST /process-images with at most k images.
EnrollRequests(k) ==
    {EnrollReq(FALSE, 0, NoId, FALSE)}
    \cup {EnrollReq(TRUE, len, s, m) :
            len \in 0..k, s \in Ids \cup {NoId}, m \in BOOLEAN}

CompareReq(h1, h2, i1, i2) ==
    [IdleReq EXCEPT !.endpoint = "compare", !.method = "POST",
                    !.has1 = h1, !.has2 = h2, !.img1 = i1, !.img2 = i2]

CompareRequests ==
    {CompareReq(TRUE, TRUE, i1, i2) : i1 \in UploadImages, i2 \in UploadImages}
    \cup {CompareReq(TRUE, FALSE, i1, NoFace) : i1 \in UploadImages}
    \cup {CompareReq(FALSE, TRUE, NoFace, i2) : i2 \in UploadImages}
    \cup {CompareReq(FALSE, FALSE, NoFace, NoFace)}

NoResp == [code |-> 0, msg |-> "", dist |-> <<>>]
Resp(c, m) == [code |-> c, msg |-> m, dist |-> <<>>]

VARIABLES
    store,      \* face_encodings/: student_id -> signature file
    archive,    \* student_images/: the set of <<student_id, index>> filed
    tempdir,    \* names of the temporary files that exist
    pc,         \* each thread's position in its handler
    req,        \* each thread's request
    loc,        \* each thread's local variables
    resp,       \* each thread's response
    obs         \* each thread's record of the calls its request has made

vars == <<store, archive, tempdir, pc, req, loc, resp, obs>>

IdleLoc ==
    [i |-> 0, encs |-> <<>>, avg |-> <<>>, cur |-> 0, tmpname |-> 0,
     temp_path |-> 0, features1 |-> NoFeatures, features2 |-> NoFeatures]

\* What a request has done so far: saveCalls counts the save_face_encoding
\* calls, priorComplete says whether the signature file held a complete
\* record when save_face_encoding was called, archTried holds the indexes passed to save_student_image, xruns
\* the images extract_face_features was called on, tmp1/tmp2 the temporary
\* file each of those calls created (0: none), distCalls the face_distance
\* calls.
IdleObs ==
    [saveCalls |-> 0, priorComplete |-> FALSE, archTried |-> {}, xruns |-> {},
     tmp1 |-> 0, tmp2 |-> 0, distCalls |-> 0]

Respond(w, r) ==
    /\ resp' = [resp EXCEPT ![w] = r]
    /\ pc' = [pc EXCEPT ![w] = "done"]

\* ------------------------------------------------------------------------
\* POST /process-images

\* A request with at most k images arrives at thread w.
BeginEnroll(w, k) ==
    /\ pc[w] = "idle"
    /\ \E r \in EnrollRequests(k) : req' = [req EXCEPT ![w] = r]
    /\ pc' = [pc EXCEPT ![w] = "e_validate"]
    /\ UNCHANGED <<store, archive, tempdir, loc, resp, obs>>

\* `if not data`, `if not all([images, student_id, name, roll_number, class_name])`
EnrollValidate(w) ==
    /\ pc[w] = "e_validate"
    /\ IF ~req[w].hasData
       THEN Respond(w, Resp(400, "No data received"))
       ELSE IF req[w].n = 0 \/ req[w].sid = NoId \/ ~req[w].meta
       THEN Respond(w, Resp(400, "Missing required fields"))
       ELSE /\ pc' = [pc EXCEPT ![w] = "e_loop"]
            /\ resp' = resp
    /\ UNCHANGED <<store, archive, tempdir, req, loc, obs>>

\* One iteration of the loop over the images: decode, detect, encode,
\* append, save_student_image; or skip the image. save_student_image
\* returns True or False and the loop ignores which.
EnrollImage(w) ==
    /\ pc[w] = "e_loop"
    /\ loc[w].i < req[w].n
    /\ \E img \in EnrollImages :
         LET i == loc[w].i
             encs2 == NextEncodings(loc[w].encs, img)
         IN /\ req' = [req EXCEPT ![w].images = Append(@, img)]
            /\ loc' = [loc EXCEPT ![w].i = i + 1, ![w].encs = encs2]
            /\ IF Len(encs2) > Len(loc[w].encs)
               THEN \E ok \in BOOLEAN :
                      LET idx == ArchiveIndex(i, encs2)
                      IN /\ archive' = IF ok THEN archive \cup {<<req[w].sid, idx>>}
                                       ELSE archive
                         /\ obs' = [obs EXCEPT ![w].archTried = @ \cup {idx}]
               ELSE UNCHANGED <<archive, obs>>
    /\ UNCHANGED <<store, tempdir, pc, resp>>

\* After the loop: 400 when nothing was encoded, otherwise the mean and the
\* call of save_face_encoding.
EnrollAggregate(w) ==
    /\ pc[w] = "e_loop"
    /\ loc[w].i = req[w].n
    /\ IF NoEncodings(loc[w].encs)
       THEN /\ Respond(w, Resp(400, "No valid faces detected in any image"))
            /\ UNCHANGED <<loc, obs>>
       ELSE /\ loc' = [loc EXCEPT ![w].avg = Mean(loc[w].encs)]
            /\ obs' = [obs EXCEPT ![w].saveCalls = @ + 1,
                                  ![w].priorComplete =
                                      IsComplete(store[EncodingPath(req[w].sid)])]
            /\ pc' = [pc EXCEPT ![w] = "s_open"]
            /\ resp' = resp
    /\ UNCHANGED <<store, archive, tempdir, req>>

\* save_face_encoding returned False.
SaveFailed(w) == Respond(w, Resp(500, "Failed to save face encoding"))

\* np.save opens the file for writing; the open may raise.
SaveOpen(w) ==
    /\ pc[w] = "s_open"
    /\ LET p == EncodingPath(req[w].sid)
       IN \E ok \in BOOLEAN :
            IF ok
            THEN /\ store' = [store EXCEPT ![p] = OpenTruncate(store[p])]
                 /\ pc' = [pc EXCEPT ![w] = "s_hdr"]
                 /\ resp' = resp
            ELSE /\ SaveFailed(w)
                 /\ store' = store
    /\ UNCHANGED <<archive, tempdir, req, loc, obs>>

\* np.save writes the header; the write may raise.
SaveHeader(w) ==
    /\ pc[w] = "s_hdr"
    /\ LET p == EncodingPath(req[w].sid)
       IN \E ok \in BOOLEAN :
            IF ok
            THEN /\ store' = [store EXCEPT ![p] = WriteHeader(store[p])]
                 /\ pc' = [pc EXCEPT ![w] = "s_data"]
                 /\ resp' = resp
            ELSE /\ SaveFailed(w)
                 /\ store' = store
    /\ UNCHANGED <<archive, tempdir, req, loc, obs>>

\* np.save writes the array and closes; the write may raise. On success
\* save_face_encoding returns True and the handler answers success.
SaveData(w) ==
    /\ pc[w] = "s_data"
    /\ LET p == EncodingPath(req[w].sid)
       IN \E ok \in BOOLEAN :
            IF ok
            THEN /\ store' = [store EXCEPT ![p] = WriteData(store[p], loc[w].avg)]
                 /\ Respond(w, Resp(200, "Student registered successfully"))
            ELSE /\ SaveFailed(w)
                 /\ store' = store
    /\ UNCHANGED <<archive, tempdir, req, loc, obs>>

\* The response is sent; the thread is free again.
Finish(w) ==
    /\ pc[w] = "done"
    /\ pc' = [pc EXCEPT ![w] = "idle"]
    /\ req' = [req EXCEPT ![w] = IdleReq]
    /\ loc' = [loc EXCEPT ![w] = IdleLoc]
    /\ resp' = [resp EXCEPT ![w] = NoResp]
    /\ obs' = [obs EXCEPT ![w] = IdleObs]
    /\ UNCHANGED <<store, archive, tempdir>>

\* ------------------------------------------------------------------------
\* /extract-features

\* A request arrives at thread w.
BeginCompare(w) ==
    /\ pc[w] = "idle"
    /\ \E r \in CompareRequests, m \in {"GET", "POST"} :
         req' = [req EXCEPT ![w] = [r EXCEPT !.method = m]]
    /\ pc' = [pc EXCEPT ![w] = "c_check"]
    /\ UNCHANGED <<store, archive, tempdir, loc, resp, obs>>

\* `if request.method == 'GET'`, `if 'image1' not in request.files or ...`
CompareCheck(w) ==
    /\ pc[w] = "c_check"
    /\ IF req[w].method = "GET"
       THEN /\ Respond(w, Resp(200, "This endpoint accepts POST requests with image files"))
            /\ UNCHANGED <<loc, obs>>
       ELSE IF ~req[w].has1 \/ ~req[w].has2
       THEN /\ Respond(w, Resp(400, "Both image files are required"))
            /\ UNCHANGED <<loc, obs>>
       ELSE /\ pc' = [pc EXCEPT ![w] = "x_open"]
            /\ loc' = [loc EXCEPT ![w].cur = 1]
            /\ obs' = [obs EXCEPT ![w].xruns = {1}]
            /\ resp' = resp
    /\ UNCHANGED <<store, archive, tempdir, req>>

\* The smallest name free in the temporary directory.
FreshName(dir) == CHOOSE n \in (1..MaxTmp) \ dir : \A m \in (1..MaxTmp) \ dir : n <= m

\* features1 = extract_face_features(image1_file)
\* features2 = extract_face_features(image2_file)
\* : where the handler goes when the call on image `cur` has returned.
AfterExtractShortCircuit(cur, result) ==
    IF cur = 1 /\ result.ok THEN "x_open" ELSE "c_respond"
AfterExtract(cur, result) ==
    IF cur = 1 THEN "x_open" ELSE "c_respond"

\* extract_face_features returns `result` to the handler.
ExtractReturn(w, result) ==
    LET cur == loc[w].cur
        next == AfterExtract(cur, result)
    IN /\ pc' = [pc EXCEPT ![w] = next]
       /\ loc' = [loc EXCEPT
                    ![w].features1 = IF cur = 1 THEN result ELSE @,
                    ![w].features2 = IF cur = 2 THEN result ELSE @,
                    ![w].cur = IF next = "x_open" THEN 2 ELSE 0,
                    ![w].tmpname = 0,
                    ![w].temp_path = 0]

\* The record of the temporary file of the call on image cur: name f, or 0
\* once it is removed. The call on image 2 is recorded as made when the
\* handler goes on to it.
NoteTemp(w, f, calls2) ==
    obs' = [obs EXCEPT ![w].tmp1 = IF loc[w].cur = 1 THEN f ELSE @,
                       ![w].tmp2 = IF loc[w].cur = 2 THEN f ELSE @,
                       ![w].xruns = IF calls2 THEN @ \cup {2} ELSE @]

\* tempfile.NamedTemporaryFile(delete=False): creates the file. With the
\* directory full it raises: temp_path is not bound, the call returns None.
ExtractOpenTemp(w) ==
    /\ pc[w] = "x_open"
    /\ IF Cardinality(tempdir) < MaxTmp
       THEN /\ tempdir' = tempdir \cup {FreshName(tempdir)}
            /\ loc' = [loc EXCEPT ![w].tmpname = FreshName(tempdir)]
            /\ NoteTemp(w, FreshName(tempdir), FALSE)
            /\ pc' = [pc EXCEPT ![w] = "x_save"]
       ELSE /\ ExtractReturn(w, NoFeatures)
            /\ NoteTemp(w, 0, AfterExtract(loc[w].cur, NoFeatures) = "x_open")
            /\ tempdir' = tempdir
    /\ UNCHANGED <<store, archive, req, resp>>

\* image_file.save(temp_file.name); temp_path = temp_file.name. When save
\* raises, temp_path is not bound: the handler of the exception does not
\* unlink, and the call returns None.
ExtractSaveUpload(w) ==
    /\ pc[w] = "x_save"
    /\ \E ok \in BOOLEAN :
         IF ok
         THEN /\ loc' = [loc EXCEPT ![w].temp_path = loc[w].tmpname]
              /\ pc' = [pc EXCEPT ![w] = "x_analyse"]
              /\ obs' = obs
         ELSE /\ ExtractReturn(w, NoFeatures)
              /\ NoteTemp(w, loc[w].tmpname,
                          AfterExtract(loc[w].cur, NoFeatures) = "x_open")
    /\ UNCHANGED <<store, archive, tempdir, req, resp>>

\* What the rest of extract_face_features returns for an image: None when
\* load_image_file raises, no face is located or no encoding is returned,
\* the first encoding otherwise.
ExtractResult(img) ==
    IF img.kind = "face" THEN Features(img.emb) ELSE NoFeatures

\* The steps of ExtractAnalyse that do not touch the two directories:
\* load, locate, encode, os.unlink(temp_path) on each path, return.
ExtractAnalyseCore(w) ==
    /\ pc[w] = "x_analyse"
    /\ LET img == IF loc[w].cur = 1 THEN req[w].img1 ELSE req[w].img2
           result == ExtractResult(img)
       IN /\ tempdir' = tempdir \ {loc[w].temp_path}
          /\ ExtractReturn(w, result)
          /\ NoteTemp(w, 0, AfterExtract(loc[w].cur, result) = "x_open")
    /\ UNCHANGED <<req, resp>>

\* The same steps, with the encoding also written under face_encodings/.
ExtractAnalyseSaving(w) ==
    /\ ExtractAnalyseCore(w)
    /\ store' = [store EXCEPT !["s1"] = Complete(Mean(<<<<0, 0>>>>))]
    /\ archive' = archive

\* The rest of extract_face_features, from load_image_file to the return.
ExtractAnalyse(w) ==
    /\ ExtractAnalyseCore(w)
    /\ UNCHANGED <<store, archive>>

\* `if not features1 or not features2:`
CompareFailsBoth(f1, f2) == ~f1.ok /\ ~f2.ok
CompareFails(f1, f2) == ~f1.ok \/ ~f2.ok

\* The 400 answer, or face_distance and the answer with it. Reading
\* ["face_encoding"] of None raises, which the handler answers with 500.
CompareRespond(w) ==
    /\ pc[w] = "c_respond"
    /\ LET f1 == loc[w].features1
           f2 == loc[w].features2
       IN IF CompareFails(f1, f2)
          THEN /\ Respond(w, Resp(400, "No face detected in one or both images"))
               /\ obs' = obs
          ELSE IF ~f1.ok \/ ~f2.ok
          THEN /\ Respond(w, Resp(500, "TypeError"))
               /\ obs' = obs
          ELSE /\ Respond(w, [code |-> 200, msg |-> "",
                              dist |-> <<FaceDistance(f1.enc, f2.enc)>>])
               /\ obs' = [obs EXCEPT ![w].distCalls = @ + 1]
    /\ UNCHANGED <<store, archive, tempdir, req, loc>>

\* ------------------------------------------------------------------------
\* Specifications.

\* After os.makedirs: both directories exist and are empty.
Init ==
    /\ store = [s \in Ids |-> NoFile]
    /\ archive = {}
    /\ tempdir = {}
    /\ pc = [w \in Workers |-> "idle"]
    /\ req = [w \in Workers |-> IdleReq]
    /\ loc = [w \in Workers |-> IdleLoc]
    /\ resp = [w \in Workers |-> NoResp]
    /\ obs = [w \in Workers |-> IdleObs]

\* Enrollment requests served one at a time.
NextEnroll ==
    \E w \in SeqWorkers :
        \/ BeginEnroll(w, MaxImages)
        \/ EnrollValidate(w)
        \/ EnrollImage(w)
        \/ EnrollAggregate(w)
        \/ SaveOpen(w)
        \/ SaveHeader(w)
        \/ SaveData(w)
        \/ Finish(w)

SpecEnroll == Init /\ [][NextEnroll]_vars

\* A server whose directories hold what single-image enrollments left.
InitCompare ==
    /\ store \in [Ids -> {NoFile} \cup {Complete(Mean(<<e>>)) : e \in Embs}]
    /\ archive \in SUBSET {<<s, 0>> : s \in Ids}
    /\ tempdir = {}
    /\ pc = [w \in Workers |-> "idle"]
    /\ req = [w \in Workers |-> IdleReq]
    /\ loc = [w \in Workers |-> IdleLoc]
    /\ resp = [w \in Workers |-> NoResp]
    /\ obs = [w \in Workers |-> IdleObs]

\* Comparison requests served one at a time.
NextCompare ==
    \E w \in SeqWorkers :
        \/ BeginCompare(w)
        \/ CompareCheck(w)
        \/ ExtractOpenTemp(w)
        \/ ExtractSaveUpload(w)
        \/ ExtractAnalyse(w)
        \/ CompareRespond(w)
        \/ Finish(w)

SpecCompare == InitCompare /\ [][NextCompare]_vars

\* Enrollment requests served concurrently, one thread each.
NextConc ==
    \E w \in Workers :
        \/ BeginEnroll(w, MaxConcImages)
        \/ EnrollValidate(w)
        \/ EnrollImage(w)
        \/ EnrollAggregate(w)
        \/ SaveOpen(w)
        \/ SaveHeader(w)
        \/ SaveData(w)
        \/ Finish(w)

SpecConc == Init /\ [][NextConc]_vars

\* ------------------------------------------------------------------------
\* Properties.

\* The embeddings of the usable images of a sequence, in order: an image is
\* usable when it decodes and the face model locates a face in it.
RECURSIVE UsableEmbs(_)
UsableEmbs(imgs) ==
    IF imgs = <<>> THEN <<>>
    ELSE LET rest == UsableEmbs(SubSeq(imgs, 1, Len(imgs) - 1))
             last == imgs[Len(imgs)]
         IN IF last.kind = "face" THEN Append(rest, last.emb) ELSE rest

\* The positions (from 0) of the usable images in the submitted sequence.
UsableIdx(imgs) == {k - 1 : k \in {j \in 1..Len(imgs) : imgs[j].kind = "face"}}

\* Thread w is inside save_face_encoding.
InSave(w) == pc[w] \in {"s_open", "s_hdr", "s_data"}

\* Thread w serves an enrollment request that carries every required field.
Validated(w) ==
    /\ req[w].endpoint = "enroll"
    /\ req[w].hasData /\ req[w].n >= 1 /\ req[w].sid # NoId /\ req[w].meta

\* Thread w has answered an enrollment request that called save_face_encoding.
SaveReturned(w) ==
    pc[w] = "done" /\ req[w].endpoint = "enroll" /\ obs[w].saveCalls = 1

SaveFailedResp == Resp(500, "Failed to save face encoding")
SuccessResp == Resp(200, "Student registered successfully")

\* C1: a save that reports failure (HTTP 500 'Failed to save face
\* encoding') leaves the record stored before it, if there was one, in
\* place; a save that reports success has stored the full new embedding.
C1_SaveAtomic ==
    \A w \in Workers :
        SaveReturned(w) =>
            LET f == store[req[w].sid]
            IN \/ resp[w] = SuccessResp /\ f = Complete(loc[w].avg)
               \/ resp[w] = SaveFailedResp /\ (obs[w].priorComplete => IsComplete(f))

\* C2: with enrollment requests for the same student_id running
\* concurrently, the signature file never holds a mixed record: whatever
\* array data it holds follows a header written into the same file contents,
\* not the zero bytes left where another request truncated the file.
C2_NoMixedRecord ==
    \A s \in Ids : store[s].data # <<>> => store[s].hdr = "ok"

\* C3 (as stated): an enrollment with every required field and at least one
\* usable image aggregates exactly the embeddings of the usable images,
\* saves that aggregate once under student_id and answers 'success'.
C3_SkipAndSucceed ==
    \A w \in Workers :
        (pc[w] = "done" /\ Validated(w) /\ UsableEmbs(req[w].images) # <<>>) =>
            /\ loc[w].encs = UsableEmbs(req[w].images)
            /\ loc[w].avg = Mean(UsableEmbs(req[w].images))
            /\ obs[w].saveCalls = 1
            /\ store[req[w].sid] = Complete(loc[w].avg)
            /\ resp[w] = SuccessResp

\* C3 (amended): such an enrollment aggregates exactly the embeddings of the
\* usable images and calls save_face_encoding once with that aggregate; it
\* answers 'success', with the aggregate stored under student_id, when the
\* save succeeds, and HTTP 500 'Failed to save face encoding' when it fails.
C3_SkipAndSaveOnce ==
    \A w \in Workers :
        (pc[w] = "done" /\ Validated(w) /\ UsableEmbs(req[w].images) # <<>>) =>
            /\ loc[w].encs = UsableEmbs(req[w].images)
            /\ loc[w].avg = Mean(UsableEmbs(req[w].images))
            /\ obs[w].saveCalls = 1
            /\ \/ resp[w] = SuccessResp /\ store[req[w].sid] = Complete(loc[w].avg)
               \/ resp[w] = SaveFailedResp

\* An enrollment that skipped an image answered 'success'.
C3_Witness ==
    \E w \in Workers :
        /\ pc[w] = "done" /\ Validated(w) /\ resp[w] = SuccessResp
        /\ \E k \in 1..Len(req[w].images) : req[w].images[k].kind # "face"
        /\ \E k \in 1..Len(req[w].images) : req[w].images[k].kind = "face"

NoValidFacesResp == Resp(400, "No valid faces detected in any image")

\* C4 (as stated): an enrollment request with N >= 1 images of which none
\* yields an embedding answers 400 'No valid faces detected in any image'
\* and never calls save_face_encoding.
C4_NoUsableImage ==
    \A w \in Workers :
        (pc[w] = "done" /\ req[w].endpoint = "enroll" /\ req[w].n >= 1
            /\ UsableEmbs(req[w].images) = <<>>) =>
            resp[w] = NoValidFacesResp /\ obs[w].saveCalls = 0

\* A request that has answered, or is still before its answer, without
\* having entered save_face_encoding.
BeforeSave(state) == state \in {"e_validate", "e_loop", "done"}

\* C4 (amended): an enrollment request with every required field and N >= 1
\* images of which none yields an embedding answers 400 'No valid faces
\* detected in any image' and never calls save_face_encoding; no step of a
\* request outside save_face_encoding changes a signature file.
C4_NoUsableImageValidated ==
    /\ [](\A w \in Workers :
            (pc[w] = "done" /\ Validated(w) /\ UsableEmbs(req[w].images) = <<>>) =>
                resp[w] = NoValidFacesResp /\ obs[w].saveCalls = 0)
    /\ [][\A w \in Workers :
            (pc[w] # pc'[w] /\ BeforeSave(pc[w]) /\ BeforeSave(pc'[w])) =>
                store' = store]_vars

\* An enrollment with no usable image was refused while a signature was
\* stored for its student_id.
C4_Witness ==
    \E w \in Workers :
        /\ pc[w] = "done" /\ Validated(w) /\ UsableEmbs(req[w].images) = <<>>
        /\ resp[w] = NoValidFacesResp
        /\ IsComplete(store[req[w].sid])

\* C5: when an enrollment answers 'success', the one signature file of its
\* student_id holds exactly the aggregate of that enrollment (not a blend
\* with what was stored before), and a signature file changes only in a
\* save for its own student_id.
C5_Overwrite ==
    /\ [](\A w \in Workers :
            (pc[w] = "done" /\ req[w].endpoint = "enroll" /\ resp[w] = SuccessResp) =>
                store[req[w].sid] = Complete(Mean(UsableEmbs(req[w].images))))
    /\ [][\A s \in Ids :
            store'[s] # store[s] => \E w \in Workers : InSave(w) /\ req[w].sid = s]_vars

\* A re-enrollment succeeded while another student's signature was stored.
C5_Witness ==
    \E w \in Workers :
        /\ pc[w] = "done" /\ req[w].endpoint = "enroll" /\ resp[w] = SuccessResp
        /\ obs[w].priorComplete
        /\ \E s \in Ids \ {req[w].sid} :
             IsComplete(store[s]) /\ store[s] # store[req[w].sid]

\* The call of extract_face_features on image k has returned.
Returned(w, k) == k \in obs[w].xruns /\ loc[w].cur # k

\* C6: once a call of extract_face_features has returned, the temporary
\* file it created no longer exists.
C6_TempRemoved ==
    \A w \in Workers :
        /\ Returned(w, 1) => obs[w].tmp1 = 0
        /\ Returned(w, 2) => obs[w].tmp2 = 0

\* Thread w serves a comparison request with both files present.
Comparing(w) ==
    /\ req[w].endpoint = "compare" /\ req[w].method = "POST"
    /\ req[w].has1 /\ req[w].has2

NoFaceResp == Resp(400, "No face detected in one or both images")

\* C7: a comparison in which the extraction of either image fails answers
\* 400 'No face detected in one or both images' and computes no distance;
\* an answer carries a face_distance only when both extractions returned a
\* signature, which needs a face in both images.
C7_CompareFailure ==
    \A w \in Workers :
        (pc[w] = "done" /\ Comparing(w)) =>
            LET f1 == loc[w].features1
                f2 == loc[w].features2
            IN /\ (req[w].img1.kind # "face" => ~f1.ok)
               /\ (req[w].img2.kind # "face" => ~f2.ok)
               /\ (~f1.ok \/ ~f2.ok) =>
                     resp[w] = NoFaceResp /\ obs[w].distCalls = 0
               /\ resp[w].dist # <<>> =>
                     f1.ok /\ f2.ok /\ obs[w].distCalls = 1

\* A comparison whose second image alone failed was answered.
C7_Witness ==
    \E w \in Workers :
        /\ pc[w] = "done" /\ Comparing(w)
        /\ loc[w].features1.ok /\ ~loc[w].features2.ok
        /\ resp[w] = NoFaceResp

\* C8 (as stated): once the extraction of image1 has failed,
\* extract_face_features is not called on image2.
C8_StopAtFirstFailure ==
    \A w \in Workers :
        (Comparing(w) /\ Returned(w, 1) /\ ~loc[w].features1.ok) =>
            2 \notin obs[w].xruns

\* C8 (amended): extract_face_features is called on image1 and then on
\* image2 whatever the first call returned; the results are examined, and
\* the 400 answer given, only after both calls have returned.
C8_BothExtracted ==
    \A w \in Workers :
        /\ (Comparing(w) /\ Returned(w, 1)) => 2 \in obs[w].xruns
        /\ (Comparing(w) /\ pc[w] \in {"c_respond", "done"}) =>
              Returned(w, 1) /\ Returned(w, 2)

\* The extraction of image1 failed and image2 was extracted all the same.
C8_Witness ==
    \E w \in Workers :
        /\ pc[w] = "done" /\ Comparing(w)
        /\ ~loc[w].features1.ok /\ loc[w].features2.ok
        /\ Returned(w, 2)

\* C9: no step of a comparison request changes the stored signatures or
\* the image archive.
C9_NoPersistence ==
    [][(\E w \in Workers : req[w].endpoint = "compare" \/ req'[w].endpoint = "compare")
         => (store' = store /\ archive' = archive)]_vars

\* A comparison was answered with a distance on a server that holds
\* signatures and archived images.
C9_Witness ==
    \E w \in Workers :
        /\ pc[w] = "done" /\ Comparing(w) /\ resp[w].dist # <<>>
        /\ \E s \in Ids : IsComplete(store[s])
        /\ archive # {}

\* Thread w is in the image loop of an enrollment or past it.
Looping(w) ==
    req[w].endpoint = "enroll" /\ pc[w] \in {"e_loop", "s_open", "s_hdr", "s_data", "done"}

\* C10: the indexes passed to save_student_image are exactly the original
\* positions of the images that yielded an embedding; whatever those writes
\* returned, the embeddings aggregated are those of the usable images and
\* the answer is the one the images and the save decide; an archive entry
\* is never removed, and one is added only under (student_id, i) for the
\* image i being processed.
C10_Archive ==
    /\ [](\A w \in Workers :
            /\ Looping(w) =>
                 /\ obs[w].archTried = UsableIdx(req[w].images)
                 /\ loc[w].encs = UsableEmbs(req[w].images)
            /\ (pc[w] = "done" /\ Validated(w)) =>
                 IF UsableEmbs(req[w].images) = <<>>
                 THEN resp[w] = NoValidFacesResp
                 ELSE resp[w] \in {SuccessResp, SaveFailedResp})
    /\ [][/\ archive \subseteq archive'
          /\ \A key \in archive' \ archive :
               \E w \in Workers :
                  /\ pc[w] = "e_loop"
                  /\ key = <<req[w].sid, loc[w].i>>
                  /\ req'[w].images[loc[w].i + 1].kind = "face"]_vars

\* An enrollment succeeded although the archive write of its usable image,
\* which was not the first image, failed, and an entry of an earlier
\* enrollment at another index is still there.
C10_Witness ==
    \E w \in Workers :
        /\ pc[w] = "done" /\ Validated(w) /\ resp[w] = SuccessResp
        /\ req[w].images[1].kind # "face"
        /\ \E i \in obs[w].archTried : <<req[w].sid, i>> \notin archive
        /\ \E i \in 0..(req[w].n - 1) :
             i \notin obs[w].archTried /\ <<req[w].sid, i>> \in archive

====
